---- MODULE Spec2Model ----
(***************************************************************************)
(* Model of the orbipacket codec: Payload, DeviceId, the frame encoder     *)
(* (encode.rs), the single-frame decoder and the streaming decoder         *)
(* (decode.rs), together with the receive loop that drives the streaming   *)
(* decoder.  Byte sequences are TLA+ sequences (1-based); the operators    *)
(* Get/Put take the 0-based indices of the Rust source.                    *)
(***************************************************************************)
EXTENDS Integers, Sequences, FiniteSets, TLC

(***************************************************************************)
(* Program constants                                                       *)
(***************************************************************************)
\* lib.rs:84  static VERSION: u8 = 0x01
VERSION == 1
\* lib.rs:197  const OVERHEAD: usize = 1 + 1 + 1 + 8 + 2
OVERHEAD == 1 + 1 + 1 + 8 + 2
\* payload.rs:48  pub const MAX_SIZE: usize = 255
MAX_SIZE == 255
\* encode.rs:27  crc::CRC_16_OPENSAFETY_B: width 16, poly 0x755b, init 0,
\* no reflection, xorout 0
CRC_POLY == 30043

(***************************************************************************)
(* Byte and word arithmetic.  TLC's integers are 32 bits wide, so a u64    *)
(* (a Timestamp) is kept as its 8 base-256 digits, most significant first; *)
(* to_le_bytes and from_le_bytes convert between that and wire order.      *)
(***************************************************************************)
Get(s, i) == s[i + 1]
Put(s, i, v) == [s EXCEPT ![i + 1] = v]
\* &buf[from..to] of the source (0-based, end exclusive)
Slice(s, from, to) == SubSeq(s, from + 1, to)
\* [0u8; count]
Zeros(count) == SubSeq([zi \in 1..count |-> 0], 1, count)

Reverse(s) == SubSeq([ri \in 1..Len(s) |-> s[Len(s) + 1 - ri]], 1, Len(s))

\* a ^ b on 16-bit words
Xor(a, b) ==
    LET B(k) == (((a \div (2 ^ k)) + (b \div (2 ^ k))) % 2) * (2 ^ k)
    IN  B(0) + B(1) + B(2) + B(3) + B(4) + B(5) + B(6) + B(7)
        + B(8) + B(9) + B(10) + B(11) + B(12) + B(13) + B(14) + B(15)

\* position(|&x| x == 0): 0-based index of the first zero byte, -1 for None
Position(s) ==
    IF \E pi \in 1..Len(s) : s[pi] = 0
    THEN (CHOOSE pi \in 1..Len(s) :
              s[pi] = 0 /\ \A pj \in 1..(pi - 1) : s[pj] # 0) - 1
    ELSE -1

\* u64::to_le_bytes
ToLeBytes(v) == Reverse(v)

\* u64::from_le_bytes
FromLeBytes(bs) == Reverse(bs)

\* u64 from a small number (Timestamp::new(10))
U64(small) == <<0, 0, 0, 0, 0, 0, small \div 256, small % 256>>

\* u16::to_le_bytes
U16ToLeBytes(v) == <<v % 256, v \div 256>>

\* u16::from_le_bytes
U16FromLeBytes(bs) == bs[1] + 256 * bs[2]

(***************************************************************************)
(* CRC-16/OPENSAFETY-B (crc crate, bitwise form of Crc::<u16>::checksum)   *)
(***************************************************************************)
\* one bit: shift left, reduce by the polynomial when the top bit falls out
CrcBit(crc) ==
    IF crc >= 32768 THEN Xor((crc * 2) % 65536, CRC_POLY) ELSE crc * 2

\* one byte: xor it into the high byte, then eight bits
CrcByte(crc, byte) ==
    LET c0 == Xor(crc, byte * 256)
        c1 == CrcBit(c0)
        c2 == CrcBit(c1)
        c3 == CrcBit(c2)
        c4 == CrcBit(c3)
        c5 == CrcBit(c4)
        c6 == CrcBit(c5)
        c7 == CrcBit(c6)
    IN  CrcBit(c7)

\* Digest::update on bytes[lo..hi), in order; crc is a u16.  The range is
\* halved so that long inputs do not nest deeply.
RECURSIVE CrcUpdate(_, _, _, _)
CrcUpdate(crc, bytes, lo, hi) ==
    IF crc > 65535 \/ hi <= lo THEN crc
    ELSE IF hi = lo + 1 THEN CrcByte(crc, Get(bytes, lo))
    ELSE CrcUpdate(CrcUpdate(crc, bytes, lo, (lo + hi) \div 2), bytes,
                   (lo + hi) \div 2, hi)

CrcChecksum(bytes) == CrcUpdate(0, bytes, 0, Len(bytes))

(***************************************************************************)
(* COBS (cobs crate): max_encoding_length, encode, decode_in_place         *)
(***************************************************************************)
\* max_encoding_length without the code byte of the last, partial block
max_encoding_length_no_partial(n) == n + (n \div 254)

max_encoding_length(n) ==
    n + (n \div 254) + (IF n % 254 > 0 THEN 1 ELSE 0)

\* CobsEncoder::push for one byte.  st.dest is the output buffer, st.ok turns
\* FALSE when a write falls outside it (encode() unwraps that error).  When
\* a full block of 254 non-zero bytes ends with the last byte of the source,
\* no place is kept for a further code byte (might_be_done).
CobsPushByte(st, x, last) ==
    IF ~st.ok THEN st
    ELSE IF x = 0 THEN
        IF st.code_idx >= Len(st.dest) THEN [st EXCEPT !.ok = FALSE]
        ELSE [st EXCEPT !.dest = Put(st.dest, st.code_idx, st.num),
                        !.code_idx = st.code_idx + st.off,
                        !.num = 1, !.off = 1,
                        !.dest_idx = st.dest_idx + 1]
    ELSE IF st.num + 1 = 255 THEN
        IF st.code_idx >= Len(st.dest) \/ st.dest_idx >= Len(st.dest)
        THEN [st EXCEPT !.ok = FALSE]
        ELSE [st EXCEPT !.dest = Put(Put(st.dest, st.code_idx, 255),
                                     st.dest_idx, x),
                        !.code_idx = st.code_idx + st.off + 1,
                        !.num = 1, !.off = 1,
                        !.dest_idx = st.dest_idx + (IF last THEN 1 ELSE 2)]
    ELSE
        IF st.dest_idx >= Len(st.dest) THEN [st EXCEPT !.ok = FALSE]
        ELSE [st EXCEPT !.dest = Put(st.dest, st.dest_idx, x),
                        !.num = st.num + 1, !.off = st.off + 1,
                        !.dest_idx = st.dest_idx + 1]

\* CobsEncoder::push on source[lo..hi), in order; the range is halved so
\* that long inputs do not nest deeply
RECURSIVE CobsPush(_, _, _, _)
CobsPush(st, source, lo, hi) ==
    IF ~st.ok \/ hi <= lo THEN st
    ELSE IF hi = lo + 1
    THEN CobsPushByte(st, Get(source, lo), lo = Len(source) - 1)
    ELSE CobsPush(CobsPush(st, source, lo, (lo + hi) \div 2), source,
                  (lo + hi) \div 2, hi)

\* cobs::encode(source, dest): [ok, n (bytes written), dest (after the call)]
CobsEncode(source, dest) ==
    LET st == CobsPush([dest |-> dest, dest_idx |-> 1, code_idx |-> 0,
                        num |-> 1, off |-> 1, ok |-> TRUE], source, 0,
                       Len(source))
    IN  IF ~st.ok THEN [ok |-> FALSE, n |-> 0, dest |-> st.dest]
        ELSE IF st.dest_idx = 1 THEN [ok |-> TRUE, n |-> 0, dest |-> st.dest]
        ELSE [ok |-> TRUE, n |-> st.dest_idx,
              dest |-> IF st.code_idx < Len(st.dest)
                       THEN Put(st.dest, st.code_idx, st.num)
                       ELSE st.dest]

\* for _ in 1..code { buf[dest_index] = buf[source_index]; ... } for n
\* bytes; the destination never overtakes the source
CobsCopy(buf, s, d, n) ==
    [buf |-> SubSeq([ci \in 1..Len(buf) |->
                        IF ci > d /\ ci <= d + n THEN buf[ci + (s - d)]
                        ELSE buf[ci]], 1, Len(buf)),
     s |-> s + n, d |-> d + n]

RECURSIVE CobsDecodeLoop(_, _, _, _)
CobsDecodeLoop(buf, s, d, src_end) ==
    IF s >= src_end THEN [ok |-> TRUE, len |-> d, buf |-> buf]
    ELSE LET code == Get(buf, s) IN
         IF s + code > src_end /\ code # 1
         THEN [ok |-> FALSE, len |-> d, buf |-> buf]
         ELSE LET c == CobsCopy(buf, s + 1, d, code - 1)
                  z == (code # 255 /\ c.s < src_end)
              IN  CobsDecodeLoop(IF z THEN Put(c.buf, c.d, 0) ELSE c.buf,
                                 c.s, IF z THEN c.d + 1 ELSE c.d, src_end)

\* cobs::decode_in_place(buf): [ok, len, buf (after the call), empty]
CobsDecodeInPlace(buf) ==
    IF Len(buf) = 0 THEN [ok |-> FALSE, len |-> 0, buf |-> buf]
    ELSE LET p == Position(buf)
         IN  CobsDecodeLoop(buf, 0, 0, IF p >= 0 THEN p ELSE Len(buf))

(***************************************************************************)
(* Results.  Every result record has a kind: "Ok", "Err" (a typed error)   *)
(* or "Panic" (an index out of range, an arithmetic overflow, an unwrap of *)
(* an error).  Errors are [type, a, b] with the variant's fields in a, b.  *)
(***************************************************************************)
Error(type, a, b) == [type |-> type, a |-> a, b |-> b]
NoError == Error("None", 0, 0)

(***************************************************************************)
(* payload.rs                                                              *)
(***************************************************************************)
\* Payload::new
PayloadNew == [data |-> Zeros(MAX_SIZE), length |-> 0]

\* from_raw_bytes with the bound off by one (>= for >): length 255 is refused
from_raw_bytes_off_by_one(raw_bytes) ==
    IF Len(raw_bytes) >= MAX_SIZE
    THEN [kind |-> "Err", err |-> Error("PayloadTooLong", Len(raw_bytes), 0),
          payload |-> PayloadNew]
    ELSE [kind |-> "Ok", err |-> NoError,
          payload |-> [data |-> raw_bytes \o Zeros(MAX_SIZE - Len(raw_bytes)),
                       length |-> Len(raw_bytes)]]

\* Payload::from_raw_bytes
from_raw_bytes(raw_bytes) ==
    IF Len(raw_bytes) > MAX_SIZE
    THEN [kind |-> "Err", err |-> Error("PayloadTooLong", Len(raw_bytes), 0),
          payload |-> PayloadNew]
    ELSE [kind |-> "Ok", err |-> NoError,
          payload |-> [data |-> raw_bytes \o Zeros(MAX_SIZE - Len(raw_bytes)),
                       length |-> Len(raw_bytes)]]

\* Payload::as_bytes
as_bytes(payload) == Slice(payload.data, 0, payload.length)

\* Payload::length
length(payload) == payload.length

(***************************************************************************)
(* device_id.rs                                                            *)
(***************************************************************************)
\* enum DeviceId, #[repr(u8)]: the variants in declaration order; the
\* discriminant of the i-th variant is i - 1
DeviceIdVariants ==
    << "System", "TimeSync", "Gps", "Camera", "Accelerometer", "Gyroscope",
       "Altimeter", "Magnetometer", "PressureSensor", "TemperatureSensor",
       "HumiditySensor", "RadiationSensor", "Mission1", "Mission2",
       "Mission3", "Mission4" >>

DeviceId == {DeviceIdVariants[i] : i \in 1..Len(DeviceIdVariants)}

\* `*self as u8`
DeviceIdAsU8(id) ==
    (CHOOSE i \in 1..Len(DeviceIdVariants) : DeviceIdVariants[i] = id) - 1

\* impl TryFrom<u8> for DeviceId
try_from(value) ==
    CASE value = 0 -> [kind |-> "Ok", id |-> "System", err |-> NoError]
      [] value = 1 -> [kind |-> "Ok", id |-> "TimeSync", err |-> NoError]
      [] value = 2 -> [kind |-> "Ok", id |-> "Gps", err |-> NoError]
      [] value = 3 -> [kind |-> "Ok", id |-> "Camera", err |-> NoError]
      [] value = 4 -> [kind |-> "Ok", id |-> "Accelerometer", err |-> NoError]
      [] value = 5 -> [kind |-> "Ok", id |-> "Gyroscope", err |-> NoError]
      [] value = 6 -> [kind |-> "Ok", id |-> "Altimeter", err |-> NoError]
      [] value = 7 -> [kind |-> "Ok", id |-> "Magnetometer", err |-> NoError]
      [] value = 8 -> [kind |-> "Ok", id |-> "PressureSensor", err |-> NoError]
      [] value = 9 -> [kind |-> "Ok", id |-> "TemperatureSensor",
                       err |-> NoError]
      [] value = 10 -> [kind |-> "Ok", id |-> "HumiditySensor",
                        err |-> NoError]
      [] value = 11 -> [kind |-> "Ok", id |-> "RadiationSensor",
                        err |-> NoError]
      [] value = 12 -> [kind |-> "Ok", id |-> "Mission1", err |-> NoError]
      [] value = 13 -> [kind |-> "Ok", id |-> "Mission2", err |-> NoError]
      [] value = 14 -> [kind |-> "Ok", id |-> "Mission3", err |-> NoError]
      [] value = 15 -> [kind |-> "Ok", id |-> "Mission4", err |-> NoError]
      [] OTHER -> [kind |-> "Err", id |-> "System",
                   err |-> Error("InvalidId", value, 0)]

(***************************************************************************)
(* lib.rs: the packet data model                                           *)
(***************************************************************************)
\* InternalPacket::new
InternalPacketNew(device_id, timestamp, payload) ==
    [version |-> VERSION, device_id |-> device_id, timestamp |-> timestamp,
     payload |-> payload]

\* enum Packet { TmPacket(TmPacket), TcPacket(TcPacket) }
TmPacket(p) == [tag |-> "TmPacket", p |-> p]
TcPacket(p) == [tag |-> "TcPacket", p |-> p]

NoPacket == TmPacket(InternalPacketNew("System", U64(0), PayloadNew))

\* InternalPacket::size
size(p) == OVERHEAD + length(p.payload)

\* encoded_size without the byte of the terminator
encoded_size_no_terminator(p) == max_encoding_length(size(p))

\* InternalPacket::encoded_size
encoded_size(p) == max_encoding_length(size(p)) + 1

\* InternalPacket::MAX_SIZE
PACKET_MAX_SIZE == OVERHEAD + MAX_SIZE

\* InternalPacket::MAX_ENCODED_SIZE
MAX_ENCODED_SIZE == max_encoding_length(PACKET_MAX_SIZE) + 1

(***************************************************************************)
(* encode.rs                                                               *)
(***************************************************************************)
\* InternalPacket::MAX_ENCODE_BUFFER_SIZE
MAX_ENCODE_BUFFER_SIZE == OVERHEAD + MAX_SIZE + MAX_ENCODED_SIZE

\* encode_buffer_size without the byte of the terminator
encode_buffer_size_no_terminator(p) ==
    OVERHEAD + length(p.payload) + max_encoding_length(size(p))

\* InternalPacket::encode_buffer_size
encode_buffer_size(p) == OVERHEAD + length(p.payload) + encoded_size(p)

\* buffer[from..from + Len(src)].copy_from_slice(src)
CopyFromSlice(buffer, from, src) ==
    SubSeq([ki \in 1..Len(buffer) |->
               IF ki > from /\ ki <= from + Len(src) THEN src[ki - from]
               ELSE buffer[ki]], 1, Len(buffer))

\* write_header_to_buffer with the timestamp written big-endian
write_header_to_buffer_big_endian(p, buffer, is_tm_packet) ==
    LET b0 == Put(buffer, 0, p.version)
        b1 == Put(b0, 1, length(p.payload) % 256)
        control == ((DeviceIdAsU8(p.device_id) * 4) % 256)
                   + (IF is_tm_packet THEN 0 ELSE 128)
        b2 == Put(b1, 2, control)
    IN  [buffer |-> CopyFromSlice(b2, 3, p.timestamp), n |-> 3 + 8]

\* InternalPacket::write_header_to_buffer: [buffer, n (bytes written)]
write_header_to_buffer(p, buffer, is_tm_packet) ==
    LET b0 == Put(buffer, 0, p.version)
        b1 == Put(b0, 1, length(p.payload) % 256)
        control == ((DeviceIdAsU8(p.device_id) * 4) % 256)
                   + (IF is_tm_packet THEN 0 ELSE 128)
        b2 == Put(b1, 2, control)
    IN  [buffer |-> CopyFromSlice(b2, 3, ToLeBytes(p.timestamp)),
         n |-> 3 + 8]

\* InternalPacket::write_payload_to_buffer, on &mut buffer[idx..]
write_payload_to_buffer(buffer, idx, payload) ==
    [buffer |-> CopyFromSlice(buffer, idx, payload), n |-> Len(payload)]

\* EncodeTerminate that leaves the byte after the stuffed bytes as it was
EncodeTerminateStale(b3, idx, c) ==
    LET b4 == Slice(b3, 0, idx) \o c.dest
    IN  IF ~c.ok \/ idx + c.n >= Len(b4)
        THEN [kind |-> "Panic", slice |-> <<>>, buffer |-> b4,
              err |-> NoError, range |-> [from |-> 0, to |-> 0]]
        ELSE [kind |-> "Ok", slice |-> Slice(b4, idx, idx + c.n + 1),
              buffer |-> b4, err |-> NoError,
              range |-> [from |-> idx, to |-> idx + c.n + 1]]

\* encode.rs:104-107: the stuffed bytes c = cobs::encode(..) and the trailing
\* zero, after buffer[..idx] received the raw packet b3[..idx]
EncodeTerminate(b3, idx, c) ==
    LET b4 == Slice(b3, 0, idx) \o c.dest
    IN  IF ~c.ok \/ idx + c.n >= Len(b4)
        THEN [kind |-> "Panic", slice |-> <<>>, buffer |-> b4,
              err |-> NoError, range |-> [from |-> 0, to |-> 0]]
        ELSE [kind |-> "Ok",
              slice |-> Slice(Put(b4, idx + c.n, 0), idx, idx + c.n + 1),
              buffer |-> Put(b4, idx + c.n, 0), err |-> NoError,
              range |-> [from |-> idx, to |-> idx + c.n + 1]]

\* the raw packet copied to the output as it is, without byte stuffing
EncodeStuffNothing(b3, idx) ==
    EncodeTerminate(b3, idx,
                    [ok |-> TRUE, n |-> idx,
                     dest |-> CopyFromSlice(Slice(b3, idx, Len(b3)), 0,
                                            Slice(b3, 0, idx))])

\* encode.rs:103-104: split_at_mut(idx) and cobs::encode(raw, encoded)
EncodeStuff(b3, idx) ==
    EncodeTerminate(b3, idx,
                    CobsEncode(Slice(b3, 0, idx), Slice(b3, idx, Len(b3))))

\* encode.rs:96-101: the checksum of buffer[..idx0], appended little-endian
EncodeChecksum(buffer, idx0) ==
    EncodeStuff(CopyFromSlice(buffer, idx0,
                              U16ToLeBytes(CrcChecksum(Slice(buffer, 0, idx0)))),
                idx0 + 2)

\* encode.rs:93-94: the payload after the header h
EncodePayload(p, h) ==
    EncodeChecksum(write_payload_to_buffer(h.buffer, h.n,
                                           as_bytes(p.payload)).buffer,
                   h.n + length(p.payload))

\* InternalPacket::encode: [kind, slice (the returned slice), buffer (the
\* caller's buffer after the call), err, range (the returned slice is
\* buffer[from..to))]
encode(p, buffer, is_tm_packet) ==
    LET available == Len(buffer)
        required == encode_buffer_size(p)
    IN  IF available < required
        THEN [kind |-> "Err", slice |-> <<>>, buffer |-> buffer,
              err |-> Error("BufferTooSmall", required, available),
              range |-> [from |-> 0, to |-> 0]]
        ELSE EncodePayload(p, write_header_to_buffer(p, buffer, is_tm_packet))

\* TmPacket::encode / TcPacket::encode / Packet::encode
PacketEncode(packet, buffer) == encode(packet.p, buffer, packet.tag = "TmPacket")

(***************************************************************************)
(* decode.rs: Packet::decode_single                                        *)
(***************************************************************************)
\* the minimum-length check counting the header only (3 + 8 bytes), without
\* the two checksum bytes
BufferTooShortHeaderOnly(len) == len < 11

\* decode.rs:61  if len < 13
BufferTooShort(len) == len < 13

\* the version check reading byte 1 (the length byte) instead of byte 0
UnsupportedVersionWrongByte(buf) == Get(buf, 1) # VERSION

\* decode.rs:65  if buf[0] != VERSION
UnsupportedVersion(buf) == Get(buf, 0) # VERSION

\* decode.rs:88  (buf[2] & 1 << 7) == 0
ControlIsTm(control) == (control \div 128) % 2 = 0

\* the device id taken with the mask 0b00111100: bit 6 is dropped
ControlIdFourBits(control) == (control \div 4) % 16

\* decode.rs:89  (buf[2] & 0b01111100) >> 2
ControlId(control) == (control \div 4) % 32

\* decode.rs:91  u64::from_le_bytes([buf[3], buf[4], buf[5], buf[6], buf[7], 0, 0, 0])
DecodeTimestamp(buf) ==
    FromLeBytes(<<Get(buf, 3), Get(buf, 4), Get(buf, 5), Get(buf, 6),
                  Get(buf, 7), 0, 0, 0>>)

\* decode.rs:99  &buf[8..][..found_payload_len]: [from, to) in buf
PayloadRange(found_payload_len) == [from |-> 8, to |-> 8 + found_payload_len]

\* The result of decode_single: kind, the packet (Ok), the error (Err), the
\* buffer after the call, the un-stuffed length and the set of indices of buf
\* that were read after un-stuffing.
DecodeResult(kind, packet, err, buf, len, reads) ==
    [kind |-> kind, packet |-> packet, err |-> err, buf |-> buf, len |-> len,
     reads |-> reads]

\* decode.rs:93-106: the packet, dev being the result of DeviceId::try_from
DecodePacket(buf, len, found_payload_len, reads0, dev) ==
    LET tmtc == ControlIsTm(Get(buf, 2))
        timestamp == DecodeTimestamp(buf)
        pr == PayloadRange(found_payload_len)
        reads == reads0 \cup (2..7) \cup (pr.from..(pr.to - 1))
    IN  IF dev.kind = "Err"
        THEN DecodeResult("Err", NoPacket, dev.err, buf, len, reads0 \cup (2..7))
        ELSE IF pr.to > Len(buf) \/ pr.from > Len(buf)
        THEN DecodeResult("Panic", NoPacket, NoError, buf, len, reads)
        ELSE LET pl == from_raw_bytes(Slice(buf, pr.from, pr.to))
             IN  IF pl.kind # "Ok"
                 THEN \* Payload::from_raw_bytes(..).unwrap() on an error
                      DecodeResult("Panic", NoPacket, NoError, buf, len, reads)
                 ELSE DecodeResult("Ok",
                                   IF tmtc
                                   THEN TmPacket(InternalPacketNew(
                                            dev.id, timestamp, pl.payload))
                                   ELSE TcPacket(InternalPacketNew(
                                            dev.id, timestamp, pl.payload)),
                                   NoError, buf, len, reads)

\* decode.rs:88-106: the fields of a frame that passed every check
DecodeFields(buf, len, found_payload_len, reads0) ==
    DecodePacket(buf, len, found_payload_len, reads0,
                 try_from(ControlId(Get(buf, 2))))

\* decode.rs:61-106: decode_single after un-stuffing.  c is the result of
\* cobs::decode_in_place on a buffer of len0 bytes.
DecodeUnstuffed(len0, c) ==
    LET len == c.len
        buf == c.buf
    IN  IF ~c.ok
        THEN DecodeResult("Err", NoPacket,
                          IF len0 = 0 THEN Error("Cobs", 0, 0)
                          ELSE Error("Cobs", 1, len), buf, len, {})
        ELSE IF BufferTooShort(len)
        THEN DecodeResult("Err", NoPacket, Error("BufferTooShort", len, 0),
                          buf, len, {})
        ELSE IF Len(buf) < 2
        THEN DecodeResult("Panic", NoPacket, NoError, buf, len, {0, 1})
        ELSE IF UnsupportedVersion(buf)
        THEN DecodeResult("Err", NoPacket,
                          Error("UnsupportedVersion", Get(buf, 0), 0),
                          buf, len, {0})
        ELSE IF len < OVERHEAD
        THEN \* len - InternalPacket::OVERHEAD overflows
             DecodeResult("Panic", NoPacket, NoError, buf, len, {0, 1})
        ELSE
        LET found_payload_len == Get(buf, 1)
            expected_payload_len == len - OVERHEAD
        IN  IF found_payload_len # expected_payload_len
            THEN DecodeResult("Err", NoPacket,
                              Error("InvalidLength", expected_payload_len,
                                    found_payload_len), buf, len, {0, 1})
            ELSE
            LET found_checksum ==
                    U16FromLeBytes(<<Get(buf, len - 2), Get(buf, len - 1)>>)
                expected_checksum == CrcChecksum(Slice(buf, 0, len - 2))
                reads == 0..(len - 1)
            IN  IF found_checksum # expected_checksum
                THEN DecodeResult("Err", NoPacket,
                                  Error("InvalidChecksum", expected_checksum,
                                        found_checksum), buf, len, reads)
                ELSE DecodeFields(buf, len, found_payload_len, reads)

\* Packet::decode_single
decode_single(buf0) == DecodeUnstuffed(Len(buf0), CobsDecodeInPlace(buf0))

(***************************************************************************)
(* decode.rs: Packet::decode_stateless                                     *)
(***************************************************************************)
\* The result of decode_stateless: kind, the remaining slice of buf, the
\* populated slice of out, the error (Err), the buffer after the call and the
\* number of iterations the while-let loop made.
StatelessResult(kind, remaining, decoded, err, buf, iters) ==
    [kind |-> kind, remaining |-> remaining, decoded |-> decoded,
     err |-> err, buf |-> buf, iters |-> iters]

\* decode.rs:115-124, the while-let loop.  out holds the packets written to
\* out[0..out_idx); cap is out.len(); iters counts the iterations made so
\* far.  Ends with kind "Done" and the final out_idx, or with the error or
\* panic that left the function.
RECURSIVE DecodeLoop(_, _, _, _)

\* decode.rs:121: the match on the result r of decode_single(&mut buf[..idx])
DecodeLoopMatch(buf, out, cap, idx, r, iters) ==
    LET buf1 == r.buf \o Slice(buf, idx, Len(buf))
    IN  IF r.kind = "Ok"
        THEN DecodeLoop(buf1, Append(out, r.packet), cap, iters)
        ELSE [kind |-> r.kind, buf |-> buf1, out |-> out,
              out_idx |-> Len(out), err |-> r.err, iters |-> iters]

\* decode.rs:116-123: one iteration, idx being position(|&x| x == 0) or -1
DecodeLoopAt(buf, out, cap, idx, iters) ==
    LET out_idx == Len(out)
    IN  IF idx < 0
        THEN [kind |-> "Done", buf |-> buf, out |-> out, out_idx |-> out_idx,
              err |-> NoError, iters |-> iters]
        ELSE IF out_idx >= cap
        THEN IF out_idx = 0
             THEN \* out_idx -= 1 on 0
                  [kind |-> "Panic", buf |-> buf, out |-> out,
                   out_idx |-> out_idx, err |-> NoError, iters |-> iters + 1]
             ELSE [kind |-> "Done", buf |-> buf, out |-> out,
                   out_idx |-> out_idx - 1, err |-> NoError,
                   iters |-> iters + 1]
        ELSE DecodeLoopMatch(buf, out, cap, idx,
                             decode_single(Slice(buf, 0, idx)), iters + 1)

DecodeLoop(buf, out, cap, iters) ==
    DecodeLoopAt(buf, out, cap, Position(buf), iters)

\* decode.rs:126-130
TrailingRange(buf) ==
    LET idx == Position(buf)
    IN  IF idx >= 0 THEN idx ELSE Len(buf)

\* decode.rs:126-132: the return value after the loop ended as l
StatelessReturn(l) ==
    IF l.kind # "Done"
    THEN StatelessResult(l.kind, <<>>, <<>>, l.err, l.buf, l.iters)
    ELSE StatelessResult("Ok",
                         Slice(l.buf, TrailingRange(l.buf), Len(l.buf)),
                         SubSeq(l.out, 1, l.out_idx), NoError, l.buf, l.iters)

\* Packet::decode_stateless, with out an array of cap packets
decode_stateless(buf, cap) == StatelessReturn(DecodeLoop(buf, <<>>, cap, 0))

(***************************************************************************)
(* Bounds and input pools of the model                                     *)
(***************************************************************************)
\* longest payload of the small byte slices handed to from_raw_bytes
MaxSmallPayload == 2
\* how far beyond Payload::MAX_SIZE the long slices go
MaxOverLength == 2
\* bytes an encode buffer may exceed encode_buffer_size() by
MaxSlack == 1
\* longest noise buffer handed to the decoders
MaxNoise == 3
\* most frames in one buffer handed to decode_stateless
MaxFrames == 3
\* largest output array handed to decode_stateless
MaxCap == 3
\* most packets sent over the link
MaxSent == 2
\* largest output array of the receive loop
MaxOut == 2

Bytes == 0..255

\* 0, 10, 2^40 - 1, 2^40 and a value with eight distinct non-zero bytes
TimestampPool ==
    { U64(0), U64(10), <<0, 0, 0, 255, 255, 255, 255, 255>>,
      <<0, 0, 1, 0, 0, 0, 0, 0>>, <<1, 2, 3, 4, 5, 6, 7, 8>> }

PayloadPool == { <<>>, <<0>>, <<7>>, <<0, 0, 0>>, <<239, 205, 171, 0>> }

DevicePool == { "System", "TimeSync", "Mission4" }

MkPacket(tm, id, ts, bytes) ==
    LET ip == InternalPacketNew(id, ts, from_raw_bytes(bytes).payload)
    IN  IF tm THEN TmPacket(ip) ELSE TcPacket(ip)

PacketPool ==
    { MkPacket(tm, id, ts, bytes) :
        tm \in BOOLEAN, id \in DevicePool, ts \in TimestampPool,
        bytes \in PayloadPool }

\* payload lengths at which the raw packet has 254, 255, 267 and 268 bytes
LargeLengths == { MAX_SIZE - 14, MAX_SIZE - 13, MAX_SIZE - 1, MAX_SIZE }

\* long payloads: len bytes 7, with or without one zero byte in the middle
LargePayload(len, zero) ==
    SubSeq([li \in 1..len |-> IF zero /\ li = (len \div 2) + 1 THEN 0 ELSE 7],
           1, len)

LargePacketPool ==
    { MkPacket(TRUE, "TimeSync", ts, LargePayload(len, zero)) :
        ts \in {U64(10), <<1, 2, 3, 4, 5, 6, 7, 8>>}, len \in LargeLengths,
        zero \in BOOLEAN }

\* a buffer of len bytes, all equal to fill
Filled(len, fill) == SubSeq([bi \in 1..len |-> fill], 1, len)

\* the packets sent in streams: one whose fields survive decode_single, one
\* with a payload, one telecommand
StreamOrder ==
    << MkPacket(TRUE, "TimeSync", U64(10), <<>>),
       MkPacket(TRUE, "Gps", U64(258), <<7, 8>>),
       MkPacket(FALSE, "Mission4", U64(3), <<>>) >>

StreamPackets == { StreamOrder[so] : so \in 1..Len(StreamOrder) }

\* the frame of a packet as it goes on the wire: encode into a buffer of
\* exactly encode_buffer_size() bytes
EncodeFrame(packet) ==
    PacketEncode(packet, Zeros(encode_buffer_size(packet.p))).slice

\* the byte-stuffed form of raw, without the terminator
Stuff(raw) ==
    LET cs == CobsEncode(raw, Zeros(max_encoding_length(Len(raw))))
    IN  SubSeq(cs.dest, 1, cs.n)

\* a raw (un-stuffed) frame built by hand: any version, declared length and
\* control byte; the checksum is the right one plus crc_delta
RawFrame(version, len_byte, control, ts, bytes, crc_delta) ==
    LET body == <<version, len_byte, control>> \o ToLeBytes(ts) \o bytes
    IN  body \o U16ToLeBytes((CrcChecksum(body) + crc_delta) % 65536)

ControlPool == { 0, 4, 7, 60, 64, 124, 132, 192 }

CraftedFrames ==
    { RawFrame(version, IF len_sel = 0 THEN Len(bytes)
                        ELSE IF len_sel = 1 THEN Len(bytes) + 1 ELSE 200,
               control, ts, bytes, crc_delta) :
        version \in {0, VERSION, VERSION + 1}, len_sel \in 0..2,
        control \in ControlPool, ts \in {U64(10), <<1, 2, 3, 4, 5, 6, 7, 8>>},
        bytes \in {<<>>, <<7>>, <<0, 9>>}, crc_delta \in {0, 1} }

NoiseBytes == { 0, 1, 2, 255 }

RECURSIVE SeqsUpTo(_, _)
SeqsUpTo(S, n) ==
    IF n = 0 THEN { <<>> }
    ELSE LET shorter == SeqsUpTo(S, n - 1)
         IN  shorter \cup { Append(sq, x) : sq \in shorter, x \in S }

NoiseBuffers == SeqsUpTo(NoiseBytes, MaxNoise)

\* the sequences of up to n packets that go round StreamOrder, from any
\* starting packet
PacketRuns(n) ==
    { SubSeq([ri \in 1..count |->
                 StreamOrder[((start + ri - 2) % Len(StreamOrder)) + 1]],
             1, count) :
        start \in 1..Len(StreamOrder), count \in 0..n }

\* the frames of a sequence of packets, concatenated
RECURSIVE ConcatFrames(_)
ConcatFrames(packets) ==
    IF packets = <<>> THEN <<>>
    ELSE EncodeFrame(Head(packets)) \o ConcatFrames(Tail(packets))

\* zero-terminated frames on which decode_single fails: a wrong checksum, an
\* unsupported version, an unassigned device id
BadFrames ==
    { Stuff(RawFrame(VERSION, 0, 4, U64(10), <<>>, 1)) \o <<0>>,
      Stuff(RawFrame(VERSION + 1, 0, 4, U64(10), <<>>, 0)) \o <<0>>,
      Stuff(RawFrame(VERSION, 1, 64, U64(10), <<7>>, 0)) \o <<0>> }

\* incomplete trailing fragments: none, and the first bytes of a frame
Fragments ==
    { <<>>, SubSeq(EncodeFrame(MkPacket(TRUE, "Gps", U64(258), <<7, 8>>)), 1, 5) }

NoArg == [none |-> TRUE]
NoRet == [kind |-> "None", n |-> 0]

(***************************************************************************)
(* State: the last call made (op, its argument and its result) and the     *)
(* receive loop (packets sent, bytes still on the wire, bytes received,    *)
(* the retained remainder, packets and bytes handed over so far).          *)
(***************************************************************************)
VARIABLES op, arg, ret, sent, wire, recvd, rx, got, consumed, status

vars == <<op, arg, ret, sent, wire, recvd, rx, got, consumed, status>>

stream == <<sent, wire, recvd, rx, got, consumed, status>>

StreamIdle ==
    /\ sent = <<>> /\ wire = <<>> /\ recvd = <<>> /\ rx = <<>>
    /\ got = <<>> /\ consumed = <<>> /\ status = "idle"

Init ==
    /\ op = "idle" /\ arg = NoArg /\ ret = NoRet
    /\ StreamIdle

\* Payload::from_raw_bytes on a slice of len bytes, the k-th being first + k
FromRawBytes ==
    /\ op = "idle"
    /\ \E len \in (0..MaxSmallPayload)
                  \cup ((MAX_SIZE - 1)..(MAX_SIZE + MaxOverLength)),
          first \in {0, 1} :
          LET bytes == SubSeq([fi \in 1..len |-> (first + fi) % 256], 1, len)
          IN  /\ arg' = [bytes |-> bytes]
              /\ ret' = from_raw_bytes(bytes)
    /\ op' = "from_raw_bytes"
    /\ UNCHANGED stream

\* DeviceId::try_from on any u8
TryFrom ==
    /\ op = "idle"
    /\ \E value \in Bytes :
          /\ arg' = [value |-> value]
          /\ ret' = try_from(value)
    /\ op' = "try_from"
    /\ UNCHANGED stream

\* the call packet.encode(buffer); reused tells that buffer was left by an
\* earlier call
CallEncode(packet, buffer, reused) ==
    /\ arg' = [packet |-> packet, buffer |-> buffer, reused |-> reused]
    /\ ret' = PacketEncode(packet, buffer)

\* Packet::encode into a buffer of any length around encode_buffer_size()
Encode ==
    /\ op = "idle"
    /\ \E packet \in PacketPool, fill \in {0, 255}, slack \in -1..MaxSlack :
          CallEncode(packet, Filled(encode_buffer_size(packet.p) + slack, fill),
                     FALSE)
    /\ op' = "encode"
    /\ UNCHANGED stream

\* Packet::encode of a packet with a long payload, into a buffer of
\* encode_buffer_size() bytes or one byte less
EncodeLarge ==
    /\ op = "idle"
    /\ \E packet \in LargePacketPool, fill \in {0, 255}, slack \in {-1, 0} :
          CallEncode(packet, Filled(encode_buffer_size(packet.p) + slack, fill),
                     FALSE)
    /\ op' = "encode"
    /\ UNCHANGED stream

\* Packet::encode into a buffer of MAX_ENCODE_BUFFER_SIZE bytes
EncodeMax ==
    /\ op = "idle"
    /\ \E packet \in StreamPackets \cup LargePacketPool, fill \in {0, 255} :
          CallEncode(packet, Filled(MAX_ENCODE_BUFFER_SIZE, fill), FALSE)
    /\ op' = "encode"
    /\ UNCHANGED stream

\* Packet::encode of a further packet into the buffer the last call left
EncodeReuse ==
    /\ op = "encode"
    /\ ret.kind = "Ok"
    /\ ~arg.reused
    /\ \E packet \in StreamPackets : CallEncode(packet, ret.buffer, TRUE)
    /\ op' = "encode"
    /\ UNCHANGED stream

\* Packet::decode_single on the slice encode returned
DecodeEncoded ==
    /\ op = "encode"
    /\ ret.kind = "Ok"
    /\ arg' = [origin |-> "encode", packet |-> arg.packet, raw |-> <<>>,
               buf |-> ret.slice]
    /\ ret' = decode_single(ret.slice)
    /\ op' = "decode_single"
    /\ UNCHANGED stream

\* the call decode_single(buf), buf holding the stuffed form of raw if any
CallSingle(origin, raw, buf) ==
    /\ arg' = [origin |-> origin, packet |-> NoPacket, raw |-> raw,
               buf |-> buf]
    /\ ret' = decode_single(buf)

\* Packet::decode_single on a hand-built frame, with or without terminator
DecodeCrafted ==
    /\ op = "idle"
    /\ \E raw \in CraftedFrames, term \in {<<>>, <<0>>} :
          CallSingle("crafted", raw, Stuff(raw) \o term)
    /\ op' = "decode_single"
    /\ UNCHANGED stream

\* Packet::decode_single on a frame cut short before stuffing
DecodeShort ==
    /\ op = "idle"
    /\ \E cut \in 0..(OVERHEAD - 1) :
          CallSingle("short",
                     SubSeq(RawFrame(VERSION, 0, 4, U64(10), <<>>, 0), 1, cut),
                     Stuff(SubSeq(RawFrame(VERSION, 0, 4, U64(10), <<>>, 0),
                                  1, cut)) \o <<0>>)
    /\ op' = "decode_single"
    /\ UNCHANGED stream

\* Packet::decode_single on noise
DecodeNoise ==
    /\ op = "idle"
    /\ \E buf \in NoiseBuffers :
          CallSingle("noise", <<>>, buf)
    /\ op' = "decode_single"
    /\ UNCHANGED stream

\* the call decode_stateless(buf, out) with out an array of cap packets
CallStateless(origin, frames, bad, frag, cap, buf) ==
    /\ arg' = [origin |-> origin, frames |-> frames, bad |-> bad,
               frag |-> frag, cap |-> cap, buf |-> buf]
    /\ ret' = decode_stateless(buf, cap)

\* Packet::decode_stateless on valid frames, then possibly a bad frame, then
\* possibly an incomplete fragment, with an output array of cap packets
DecodeStateless ==
    /\ op = "idle"
    /\ \E frames \in PacketRuns(MaxFrames),
          bad \in {<<>>} \cup BadFrames, frag \in Fragments,
          cap \in 0..MaxCap :
          CallStateless("frames", frames, bad, frag, cap,
                        ConcatFrames(frames) \o bad \o frag)
    /\ op' = "decode_stateless"
    /\ UNCHANGED stream

\* Packet::decode_stateless on noise
DecodeStatelessNoise ==
    /\ op = "idle"
    /\ \E buf \in NoiseBuffers, cap \in 0..MaxCap :
          CallStateless("noise", <<>>, <<>>, <<>>, cap, buf)
    /\ op' = "decode_stateless"
    /\ UNCHANGED stream

(***************************************************************************)
(* The receive loop: the sender puts frames on the wire, the transport     *)
(* delivers them in chunks, and after each chunk the receiver runs         *)
(* decode_stateless on the retained remainder followed by the chunk.       *)
(***************************************************************************)
Send ==
    /\ op \in {"idle", "stream"}
    /\ status \in {"idle", "running"}
    /\ Len(sent) < MaxSent
    /\ \E packet \in StreamPackets :
          /\ sent' = Append(sent, packet)
          /\ wire' = wire \o EncodeFrame(packet)
    /\ op' = "stream"
    /\ status' = "running"
    /\ arg' = NoArg
    /\ ret' = IF op = "stream" THEN ret ELSE NoRet
    /\ UNCHANGED <<recvd, rx, got, consumed>>

\* the receiver takes the result r of decode_stateless on buf
ReceiverTake(chunk, cap, buf, r) ==
    /\ arg' = [chunk |-> chunk, cap |-> cap]
    /\ ret' = [kind |-> r.kind, n |-> Len(r.decoded), err |-> r.err]
    /\ recvd' = recvd \o chunk
    /\ IF r.kind = "Ok"
       THEN /\ got' = got \o r.decoded
            /\ rx' = r.remaining
            /\ consumed' = consumed
                           \o SubSeq(buf, 1, Len(buf) - Len(r.remaining))
            /\ status' = "running"
       ELSE /\ UNCHANGED <<got, rx, consumed>>
            /\ status' = IF r.kind = "Err" THEN "failed" ELSE "panicked"

\* one call of the receiver on buf = rx followed by chunk
ReceiverCall(chunk, cap) ==
    ReceiverTake(chunk, cap, rx \o chunk, decode_stateless(rx \o chunk, cap))

Receive ==
    /\ op = "stream"
    /\ status = "running"
    /\ \E n \in {1, 7, Len(wire)}, cap \in 1..MaxOut :
          /\ n >= 1 /\ n <= Len(wire)
          /\ wire' = SubSeq(wire, n + 1, Len(wire))
          /\ ReceiverCall(SubSeq(wire, 1, n), cap)
    /\ UNCHANGED <<op, sent>>

\* every byte sent has arrived and the last call returned Ok: the receiver
\* calls again with no new bytes
Poll ==
    /\ op = "stream"
    /\ status = "running"
    /\ wire = <<>>
    /\ ret.kind = "Ok"
    /\ \E cap \in 1..MaxOut : ReceiverCall(<<>>, cap)
    /\ UNCHANGED <<op, sent, wire>>

\* the harness starts over
Reset ==
    /\ op # "idle"
    /\ op' = "idle" /\ arg' = NoArg /\ ret' = NoRet
    /\ sent' = <<>> /\ wire' = <<>> /\ recvd' = <<>> /\ rx' = <<>>
    /\ got' = <<>> /\ consumed' = <<>> /\ status' = "idle"

Next ==
    \/ FromRawBytes
    \/ TryFrom
    \/ Encode
    \/ EncodeLarge
    \/ EncodeMax
    \/ EncodeReuse
    \/ DecodeEncoded
    \/ DecodeCrafted
    \/ DecodeShort
    \/ DecodeNoise
    \/ DecodeStateless
    \/ DecodeStatelessNoise
    \/ Send
    \/ Receive
    \/ Poll
    \/ Reset

Spec == Init /\ [][Next]_vars

(***************************************************************************)
(* Properties                                                              *)
(***************************************************************************)
\* what a packet carries: direction, device id, timestamp, payload bytes
Fields(packet) ==
    [tag |-> packet.tag, device_id |-> packet.p.device_id,
     timestamp |-> packet.p.timestamp, bytes |-> as_bytes(packet.p.payload)]

FieldsOf(packets) ==
    SubSeq([pk \in 1..Len(packets) |-> Fields(packets[pk])], 1, Len(packets))

IsPrefix(a, b) == Len(a) <= Len(b) /\ a = SubSeq(b, 1, Len(a))

\* the call was decode_stateless on valid frames only, then frag
FramesOnly == op = "decode_stateless" /\ arg.origin = "frames" /\ arg.bad = <<>>

\* raw passes the minimum-length, version, declared-length and checksum checks
PassesChecks(raw) ==
    /\ Len(raw) >= 13
    /\ raw[1] = VERSION
    /\ raw[2] = Len(raw) - OVERHEAD
    /\ U16FromLeBytes(SubSeq(raw, Len(raw) - 1, Len(raw)))
           = CrcChecksum(SubSeq(raw, 1, Len(raw) - 2))

\* C1 -- Round trip: decode_single on the slice returned by encode gives Ok
\* with a packet of the same direction, device id, timestamp and payload.
C1_RoundTrip ==
    (op = "decode_single" /\ arg.origin = "encode")
        => /\ ret.kind = "Ok"
           /\ Fields(ret.packet) = Fields(arg.packet)

\* C2 -- Receive loop: while the loop runs on a stream of valid packets, the
\* packets returned so far are a prefix of the packets sent, the bytes
\* consumed followed by the retained remainder are the bytes received, and
\* when every byte has arrived and a call returned no packet, every packet
\* sent has been returned.
C2_StreamInvariant ==
    (op = "stream" /\ status = "running")
        => /\ IsPrefix(FieldsOf(got), FieldsOf(sent))
           /\ consumed \o rx = recvd
           /\ (wire = <<>> /\ ret.kind = "Ok" /\ ret.n = 0)
                  => FieldsOf(got) = FieldsOf(sent)

\* C3 -- Streaming boundary: k valid frames followed by an incomplete fragment
\* and an output array of at least k packets give Ok with the k packets in
\* arrival order and the fragment as the remaining slice.
C3_StreamingBoundary ==
    (FramesOnly /\ arg.cap >= Len(arg.frames))
        => /\ ret.kind = "Ok"
           /\ FieldsOf(ret.decoded) = FieldsOf(arg.frames)
           /\ ret.remaining = arg.frag

\* C4 -- Output-capacity throttling: n valid frames and an output array of c
\* packets, 1 <= c < n, give Ok with the first c packets and a remaining
\* slice holding the untouched bytes of frames c+1..n.
C4_CapacityThrottling ==
    (FramesOnly /\ arg.frag = <<>> /\ arg.cap >= 1
                /\ arg.cap < Len(arg.frames))
        => /\ ret.kind = "Ok"
           /\ FieldsOf(ret.decoded)
                  = FieldsOf(SubSeq(arg.frames, 1, arg.cap))
           /\ ret.remaining
                  = ConcatFrames(SubSeq(arg.frames, arg.cap + 1,
                                        Len(arg.frames)))

\* C5 -- Abort on first error: i valid frames followed by a zero-terminated
\* frame on which decode_single fails with e, and an output array of more
\* than i packets, give Err(e).
C5_AbortOnFirstError ==
    (op = "decode_stateless" /\ arg.origin = "frames" /\ arg.bad # <<>>
         /\ arg.cap > Len(arg.frames))
        => /\ ret.kind = "Err"
           /\ ret.err = decode_single(SubSeq(arg.bad, 1, Len(arg.bad) - 1)).err

\* C6 -- decode_stateless never panics, whatever the buffer and the capacity
\* of the output array (0 included).
C6_StatelessNeverPanics ==
    op = "decode_stateless" => ret.kind \in {"Ok", "Err"}

\* C7 -- decode_single never panics: it returns Ok or a typed error, and every
\* index it reads is within the un-stuffed length.
C7_SingleNeverPanics ==
    op = "decode_single"
        => /\ ret.kind \in {"Ok", "Err"}
           /\ ret.reads \subseteq 0..(ret.len - 1)

\* a frame of 12 raw bytes was refused as too short, and a frame with a
\* 2-byte payload was decoded
C7_Witness ==
    /\ op = "decode_single"
    /\ \/ (arg.origin = "short" /\ Len(arg.raw) = 12 /\ ret.kind = "Err"
             /\ ret.err = Error("BufferTooShort", 12, 0))
       \/ (arg.origin = "crafted" /\ ret.kind = "Ok"
             /\ ret.len = OVERHEAD + 2 /\ (OVERHEAD + 1) \in ret.reads)

\* C8 -- Version gate: a frame of at least 13 un-stuffed bytes whose byte 0 is
\* not the protocol version fails with UnsupportedVersion(byte 0), whatever
\* its checksum, declared length and control byte.
C8_VersionGate ==
    (op = "decode_single" /\ arg.origin = "crafted" /\ Len(arg.raw) >= 13
         /\ arg.raw[1] # VERSION)
        => /\ ret.kind = "Err"
           /\ ret.err = Error("UnsupportedVersion", arg.raw[1], 0)

\* a frame with version VERSION + 1 that fails the declared-length check and
\* holds an unassigned device id was refused for its version
C8_Witness ==
    /\ op = "decode_single" /\ arg.origin = "crafted"
    /\ arg.raw[1] = VERSION + 1
    /\ arg.raw[2] # Len(arg.raw) - OVERHEAD
    /\ ControlId(arg.raw[3]) > 15
    /\ ret.err.type = "UnsupportedVersion"

C10_PayloadLengthBound ==
    op = "from_raw_bytes"
        => IF Len(arg.bytes) > 255
           THEN ret.kind = "Err"
                /\ ret.err = Error("PayloadTooLong", Len(arg.bytes), 0)
           ELSE /\ ret.kind = "Ok"
                /\ as_bytes(ret.payload) = arg.bytes
                /\ length(ret.payload) = Len(arg.bytes)
                /\ length(ret.payload) <= 255

\* a slice of 255 bytes was accepted
C10_Witness ==
    /\ op = "from_raw_bytes"
    /\ Len(arg.bytes) = 255
    /\ ret.kind = "Ok"
    /\ length(ret.payload) = 255

\* C11 -- Encode buffer check: encode returns Err(BufferTooSmall{required,
\* available}) iff buffer.len() < encode_buffer_size(), with required =
\* 13 + payload length + encoded_size() and available = buffer.len(), and
\* then the buffer is unchanged.
C11_EncodeBufferCheck ==
    op = "encode"
        => LET len == length(arg.packet.p.payload)
               required == 13 + len + (max_encoding_length(13 + len) + 1)
               available == Len(arg.buffer)
           IN  /\ required = encode_buffer_size(arg.packet.p)
               /\ (ret.kind = "Err") <=> (available < required)
               /\ ret.kind = "Err"
                    => /\ ret.err = Error("BufferTooSmall", required,
                                          available)
                       /\ ret.buffer = arg.buffer

\* a buffer one byte short, filled with 255, was refused and left as it was
C11_Witness ==
    /\ op = "encode"
    /\ Len(arg.buffer) = encode_buffer_size(arg.packet.p) - 1
    /\ arg.buffer[1] = 255
    /\ ret.kind = "Err"
    /\ ret.err.type = "BufferTooSmall"
    /\ ret.buffer = arg.buffer

C13_SelfDelimiting ==
    /\ (op = "encode" /\ ret.kind = "Ok")
         => /\ Len(ret.slice) >= 1
            /\ ret.slice[Len(ret.slice)] = 0
            /\ \A si \in 1..(Len(ret.slice) - 1) : ret.slice[si] # 0
    /\ (op = "decode_stateless" /\ arg.origin = "frames"
          /\ arg.frames # <<>>)
         => /\ arg.buf[Len(EncodeFrame(arg.frames[1]))] = 0
            /\ \A si \in 1..(Len(EncodeFrame(arg.frames[1])) - 1) :
                   arg.buf[si] # 0

\* a packet whose 255-byte payload holds a zero byte was encoded
C13_Witness ==
    /\ op = "encode" /\ ret.kind = "Ok"
    /\ length(arg.packet.p.payload) = 255
    /\ \E si \in 1..255 : as_bytes(arg.packet.p.payload)[si] = 0
    /\ ret.slice[Len(ret.slice)] = 0

\* the bytes obtained by un-stuffing a frame without its terminator
Unstuffed(frame) ==
    LET u == CobsDecodeInPlace(SubSeq(frame, 1, Len(frame) - 1))
    IN  [ok |-> u.ok, raw |-> SubSeq(u.buf, 1, u.len)]

\* raw is the wire layout of packet
HasLayout(raw, packet) ==
    LET len == length(packet.p.payload)
    IN  /\ Len(raw) = 13 + len
        /\ raw[1] = VERSION
        /\ raw[2] = len
        /\ raw[3] \div 128 = (IF packet.tag = "TmPacket" THEN 0 ELSE 1)
        /\ (raw[3] \div 4) % 32 = DeviceIdAsU8(packet.p.device_id)
        /\ raw[3] % 4 = 0
        /\ \A ti \in 0..7 : raw[4 + ti] = packet.p.timestamp[8 - ti]
        /\ SubSeq(raw, 12, 11 + len) = as_bytes(packet.p.payload)
        /\ raw[12 + len] + 256 * raw[13 + len]
               = CrcChecksum(SubSeq(raw, 1, 11 + len))

\* C14 -- Wire layout: un-stuffing the slice returned by encode (terminator
\* removed) gives 13 + L bytes: the version, L, the control byte (bit 7 the
\* direction, bits 6-2 the device code, bits 1-0 zero), the timestamp as 8
\* bytes little-endian, the payload, and the CRC-16 of all bytes before it,
\* little-endian.
C14_WireLayout ==
    (op = "encode" /\ ret.kind = "Ok")
        => /\ Unstuffed(ret.slice).ok
           /\ HasLayout(Unstuffed(ret.slice).raw, arg.packet)

\* a telecommand to Mission4 with a payload and a timestamp of eight distinct
\* bytes was encoded
C14_Witness ==
    /\ op = "encode" /\ ret.kind = "Ok"
    /\ arg.packet.tag = "TcPacket"
    /\ arg.packet.p.device_id = "Mission4"
    /\ arg.packet.p.timestamp = <<1, 2, 3, 4, 5, 6, 7, 8>>
    /\ length(arg.packet.p.payload) = 4
    /\ Unstuffed(ret.slice).raw[3] = 188

\* raw passes every validation step of decode_single
PassesValidation(raw) ==
    PassesChecks(raw) /\ try_from(ControlId(raw[3])).kind = "Ok"

\* C15 -- Decode field extraction: for an un-stuffed frame of 13 + L bytes
\* that passes every validation step, decode_single returns a packet whose
\* timestamp is the 64-bit little-endian value of bytes 3..10, whose payload
\* is bytes 11..11+L-1, and which is a TmPacket when bit 7 of byte 2 is 0 and
\* a TcPacket when it is 1.
C15_DecodeFieldExtraction ==
    (op = "decode_single" /\ arg.origin = "crafted" /\ PassesValidation(arg.raw))
        => /\ ret.kind = "Ok"
           /\ ret.packet.p.timestamp = FromLeBytes(SubSeq(arg.raw, 4, 11))
           /\ as_bytes(ret.packet.p.payload)
                  = SubSeq(arg.raw, 12, 11 + arg.raw[2])
           /\ ret.packet.tag
                  = (IF arg.raw[3] \div 128 = 0 THEN "TmPacket" ELSE "TcPacket")

\* C16 -- Incomplete fragment is preserved: when buf contains no zero byte,
\* decode_stateless returns Ok with an empty decoded slice and a remaining
\* slice equal to the whole of buf, with every byte of buf unchanged.
C16_FragmentPreserved ==
    (op = "decode_stateless" /\ Position(arg.buf) < 0)
        => /\ ret.kind = "Ok"
           /\ ret.decoded = <<>>
           /\ ret.remaining = arg.buf
           /\ ret.buf = arg.buf

\* C17 -- Buffer reuse: the slice encode returns depends only on the packet,
\* not on what the buffer held before; a buffer left by an earlier encode
\* gives the same bytes as a fresh zeroed buffer.
C17_BufferReuse ==
    (op = "encode" /\ ret.kind = "Ok")
        => ret.slice = EncodeFrame(arg.packet)

\* a packet was encoded into the longer buffer an earlier encode left, which
\* still held non-zero bytes of the earlier frame where the new one ends
C17_Witness ==
    /\ op = "encode" /\ ret.kind = "Ok"
    /\ arg.reused
    /\ Len(arg.buffer) > encode_buffer_size(arg.packet.p)
    /\ arg.buffer[ret.range.to] # 0
    /\ ret.slice = EncodeFrame(arg.packet)

\* C18 -- Checksum is validated before the declared payload length: when an
\* un-stuffed frame of at least 13 bytes with the supported version has both
\* an embedded checksum different from the recomputed CRC and a length byte
\* different from (un-stuffed length - 13), decode_single fails with
\* InvalidChecksum{expected: recomputed, found: embedded}, not InvalidLength.
C18_ChecksumBeforeLength ==
    (/\ op = "decode_single" /\ arg.origin = "crafted"
     /\ Len(arg.raw) >= 13
     /\ arg.raw[1] = VERSION
     /\ arg.raw[2] # Len(arg.raw) - 13
     /\ U16FromLeBytes(SubSeq(arg.raw, Len(arg.raw) - 1, Len(arg.raw)))
            # CrcChecksum(SubSeq(arg.raw, 1, Len(arg.raw) - 2)))
        => /\ ret.kind = "Err"
           /\ ret.err
                  = Error("InvalidChecksum",
                          CrcChecksum(SubSeq(arg.raw, 1, Len(arg.raw) - 2)),
                          U16FromLeBytes(SubSeq(arg.raw, Len(arg.raw) - 1,
                                                Len(arg.raw))))

\* C19 -- Encode stays in bounds: encode_buffer_size() is at most
\* MAX_ENCODE_BUFFER_SIZE, and encode on a buffer of at least
\* encode_buffer_size() bytes returns Ok without an access outside the buffer;
\* the returned slice starts after the 13 + L raw bytes and ends, terminator
\* included, within the buffer.
C19_EncodeInBounds ==
    op = "encode"
        => /\ encode_buffer_size(arg.packet.p) <= MAX_ENCODE_BUFFER_SIZE
           /\ Len(arg.buffer) >= encode_buffer_size(arg.packet.p)
                  => /\ ret.kind = "Ok"
                     /\ ret.range.from = 13 + length(arg.packet.p.payload)
                     /\ ret.range.from < ret.range.to
                     /\ ret.range.to <= Len(arg.buffer)
                     /\ Len(ret.buffer) = Len(arg.buffer)
                     /\ ret.slice
                            = Slice(ret.buffer, ret.range.from, ret.range.to)

\* a packet with the longest payload was encoded into a buffer of exactly
\* MAX_ENCODE_BUFFER_SIZE bytes, and its terminator is the buffer's last byte
C19_Witness ==
    /\ op = "encode" /\ ret.kind = "Ok"
    /\ length(arg.packet.p.payload) = MAX_SIZE
    /\ encode_buffer_size(arg.packet.p) = MAX_ENCODE_BUFFER_SIZE
    /\ Len(arg.buffer) = MAX_ENCODE_BUFFER_SIZE
    /\ ret.range.to = Len(arg.buffer)

\* the while-let loop of decode_stateless made at most out.len() + 1
\* iterations: every iteration but the last filled one slot of out
LoopBounded == op = "decode_stateless" => ret.iters <= arg.cap + 1

\* C20 -- decode_stateless terminates: for every buf and every out the
\* frame-scanning loop runs a bounded number of iterations (each iteration
\* returns an error, breaks or consumes one output slot) and the call
\* returns, even though buf still contains zero bytes after a frame was
\* decoded.
C20_StatelessTerminates ==
    op = "decode_stateless"
        => /\ ret.iters <= arg.cap + 1
           /\ ret.kind \in {"Ok", "Err"}
====
